---- MODULE Spec2Model ----
(***************************************************************************)
(* Model of knn/knn_main.py: the bitmap loader (read_lines,                *)
(* translate_pixels, load_data_file) and the multi-k evaluation driver     *)
(* (main).  The KNN class imported from knn.py is modelled from spec.md    *)
(* sections 4.1-4.3 and 7.                                                 *)
(***************************************************************************)
EXTENDS Integers, Sequences, FiniteSets, TLC

VARIABLES
    \* ---- load_data_file(filename, width, height) ----
    file,        \* what open(filename).readlines() yields: raw lines
    width,       \* parameter width
    height,      \* parameter height
    lines,       \* local list "lines" (reversed, popped from the end)
    items,       \* local list "items"
    data,        \* local list "data" of the image being assembled
    j,           \* index of the for loop over range(height)
    line,        \* the line popped last
    new_line,    \* translate_pixels(line) of the line popped last
    ld_pc,       \* position in load_data_file
    result,      \* the array returned by load_data_file
    \* ---- main(raw_args) ----
    args,             \* parsed arguments: kvals, dataset, percent, samples
    k_vals_in,        \* local k_vals_in (the option text, then the list of ints)
    k_vals,           \* dict k -> correct guesses, as its items in insertion order
    df_train,         \* training rows [vec, label]
    n_test,           \* df_test.shape[0]
    df_train_sample,  \* training rows handed to KNN
    df_test_sample,   \* rows of df_test_sample that iterrows has yielded so far
    n_test_sample,    \* df_test_sample.shape[0]
    my_knn,           \* the KNN object: its training rows
    counter,          \* local counter
    print_counter,    \* local print_counter
    predictions,      \* the list returned by the last my_knn.knn call
    plots,            \* the subplot titles drawn so far: [guess, actual]
    selected_k,       \* local selected_k
    out,              \* the result lines printed, to the results file or to stdout
    ret,              \* the value main returns
    err,              \* the exception that ended main, if any
    pc                \* position in main

ldvars == <<file, width, height, lines, items, data, j, line, new_line, ld_pc, result>>

mainvars == <<args, k_vals_in, k_vals, df_train, n_test, df_train_sample,
              df_test_sample, n_test_sample, my_knn, counter, print_counter,
              predictions, plots, selected_k, out, ret, err, pc>>

vars == <<file, width, height, lines, items, data, j, line, new_line, ld_pc, result,
          args, k_vals_in, k_vals, df_train, n_test, df_train_sample,
          df_test_sample, n_test_sample, my_knn, counter, print_counter,
          predictions, plots, selected_k, out, ret, err, pc>>

(***************************************************************************)
(* Bounds and input sets                                                   *)
(***************************************************************************)
MaxLines == 3
MaxHeight == 2

NL == "\n"

\* line bodies (text of a line without its newline) of lengths 0..3
LineBodies ==
    { <<>>, <<"+">>, <<"#", " ">>, <<"x", "+">>, <<" ", "#", "+">> }

Widths == {2, 3}
Heights == 1 .. MaxHeight

(***************************************************************************)
(* Helpers on sequences                                                    *)
(***************************************************************************)
Front(s) == SubSeq(s, 1, Len(s) - 1)

Reverse(s) == [i \in 1 .. Len(s) |-> s[Len(s) + 1 - i]]

(***************************************************************************)
(* read_lines: every raw line loses its last character                     *)
(***************************************************************************)
read_lines(f) == [i \in 1 .. Len(f) |-> Front(f[i])]

(***************************************************************************)
(* translate_pixels: a loop over the characters of the line                *)
(***************************************************************************)
RECURSIVE translate_from(_, _, _)
translate_from(ln, i, acc) ==
    IF i > Len(ln) THEN acc
    ELSE translate_from(ln, i + 1,
            IF ln[i] = "+" THEN Append(acc, 1)
            ELSE IF ln[i] = "#" THEN Append(acc, 2)
            ELSE Append(acc, 0))

\* translate_pixels with the two mark characters exchanged
translate_pixels_swapped(ln) ==
    [i \in 1 .. Len(ln) |-> IF ln[i] = "+" THEN 2 ELSE IF ln[i] = "#" THEN 1 ELSE 0]

translate_pixels(ln) == translate_from(ln, 1, <<>>)

(***************************************************************************)
(* np.array(items): rows of one length always give a 2-d array; rows of    *)
(* differing lengths give an object array on older numpy builds and raise  *)
(* ValueError on newer ones.                                               *)
(***************************************************************************)
Uniform(its) == \A a, b \in 1 .. Len(its) : Len(its[a]) = Len(its[b])

ArrayOutcomes(its) ==
    IF Uniform(its) THEN {"returned"} ELSE {"returned", "raised"}

(***************************************************************************)
(* load_data_file                                                          *)
(***************************************************************************)
RawFile(bodies, lastNL) ==
    [i \in 1 .. Len(bodies) |->
        IF i = Len(bodies) /\ ~lastNL THEN bodies[i] ELSE Append(bodies[i], NL)]

\* main is not running
MainIdle ==
    /\ args = [kvals |-> <<>>, dataset |-> "digits", percent |-> 100,
               samples |-> FALSE]
    /\ k_vals_in = <<>>
    /\ k_vals = <<>>
    /\ df_train = <<>>
    /\ n_test = 0
    /\ df_train_sample = <<>>
    /\ df_test_sample = <<>>
    /\ n_test_sample = 0
    /\ my_knn = <<>>
    /\ counter = 0
    /\ print_counter = 0
    /\ predictions = <<>>
    /\ plots = <<>>
    /\ selected_k = 0
    /\ out = <<>>
    /\ ret = <<>>
    /\ err = "none"
    /\ pc = "idle"

InitLoad ==
    /\ MainIdle
    /\ \E n \in 0 .. MaxLines : \E bodies \in [1 .. n -> LineBodies] :
         \E lastNL \in BOOLEAN :
            \* a last line without newline is never empty
            /\ (n > 0 /\ ~lastNL) => bodies[n] # <<>>
            /\ (n = 0) => lastNL
            /\ file = RawFile(bodies, lastNL)
    /\ width \in Widths
    /\ height \in Heights
    /\ lines = <<>>
    /\ items = <<>>
    /\ data = <<>>
    /\ j = 0
    /\ line = <<>>
    /\ new_line = <<>>
    /\ ld_pc = "start"
    /\ result = <<>>

\* lines 23-25
LoadStart ==
    /\ ld_pc = "start"
    /\ lines' = Reverse(read_lines(file))
    /\ items' = <<>>
    /\ ld_pc' = "while"
    /\ UNCHANGED <<file, width, height, data, j, line, new_line, result>>
    /\ UNCHANGED mainvars

\* lines 26-27: the while test, then data = list() and the for loop starts
LoadWhile ==
    /\ ld_pc = "while"
    /\ IF Len(lines) > 0
       THEN /\ data' = <<>>
            /\ j' = 0
            /\ ld_pc' = "for"
       ELSE /\ ld_pc' = "return"
            /\ UNCHANGED <<data, j>>
    /\ UNCHANGED <<file, width, height, lines, items, line, new_line, result>>
    /\ UNCHANGED mainvars

\* lines 28-32: one pass of the for loop with a line left
LoadPop ==
    /\ ld_pc = "for"
    /\ j < height
    /\ Len(lines) > 0
    /\ line' = lines[Len(lines)]
    /\ lines' = Front(lines)
    /\ new_line' = translate_pixels(line')
    /\ data' = data \o new_line'
    /\ j' = j + 1
    /\ UNCHANGED <<file, width, height, items, ld_pc, result>>
    /\ UNCHANGED mainvars

\* lines 29-30 with the partial image appended before the return
LoadExhaustedKeepsPartial ==
    /\ ld_pc = "for"
    /\ j < height
    /\ Len(lines) = 0
    /\ items' = Append(items, data)
    /\ ld_pc' = "return"
    /\ UNCHANGED <<file, width, height, lines, data, j, line, new_line, result>>
    /\ UNCHANGED mainvars

\* lines 29-30: the lines ran out inside an image: return what is complete
LoadExhausted ==
    /\ ld_pc = "for"
    /\ j < height
    /\ Len(lines) = 0
    /\ ld_pc' = "return"
    /\ UNCHANGED <<file, width, height, lines, items, data, j, line, new_line, result>>
    /\ UNCHANGED mainvars

\* lines 33-34: the for loop is over, the image is appended
LoadAppend ==
    /\ ld_pc = "for"
    /\ j >= height
    /\ items' = Append(items, data)
    /\ ld_pc' = "while"
    /\ UNCHANGED <<file, width, height, lines, data, j, line, new_line, result>>
    /\ UNCHANGED mainvars

\* lines 30 and 35: return np.array(items)
LoadReturn ==
    /\ ld_pc = "return"
    /\ \E o \in ArrayOutcomes(items) :
         /\ ld_pc' = o
         /\ result' = IF o = "returned" THEN items ELSE <<>>
    /\ UNCHANGED <<file, width, height, lines, items, data, j, line, new_line>>
    /\ UNCHANGED mainvars

NextLoad ==
    \/ LoadStart
    \/ LoadWhile
    \/ LoadPop
    \/ LoadExhausted
    \/ LoadAppend
    \/ LoadReturn

SpecLoad == InitLoad /\ [][NextLoad]_vars

SpecLoadFair == SpecLoad /\ WF_vars(NextLoad)

(***************************************************************************)
(* Properties of the loader                                                *)
(***************************************************************************)
PixelOf(c) == IF c = "+" THEN 1 ELSE IF c = "#" THEN 2 ELSE 0

\* C9: translate_pixels maps the popped line character by character, in
\* order, to a list of the same length with entries in {0,1,2}: '+' gives 1,
\* '#' gives 2 and every other character gives 0.
C9_TranslatePixels ==
    /\ Len(new_line) = Len(line)
    /\ \A i \in 1 .. Len(line) :
         /\ new_line[i] \in {0, 1, 2}
         /\ new_line[i] = PixelOf(line[i])

C9_Witness ==
    /\ ld_pc = "for"
    /\ line = <<" ", "#", "+">>
    /\ new_line = <<0, 2, 1>>
    /\ \E i \in 1 .. Len(items) : items[i] = <<0, 1>>

\* C6: every vector of a Dataset returned by load_data_file has length
\* width * height; an input giving vectors of another or of differing length
\* is rejected, never returned.
C6_VectorsHaveWidthTimesHeight ==
    ld_pc = "returned" =>
        \A i \in 1 .. Len(result) : Len(result[i]) = width * height

RECURSIVE ConcatLines(_, _, _)
ConcatLines(ls, a, b) ==
    IF a > b THEN <<>> ELSE translate_pixels(ls[a]) \o ConcatLines(ls, a + 1, b)

\* floor(n / height) vectors, the i-th made of lines (i-1)*height+1 .. i*height
ExpectedItems(f, h) ==
    LET ls == read_lines(f)
    IN  [i \in 1 .. (Len(ls) \div h) |-> ConcatLines(ls, (i - 1) * h + 1, i * h)]

\* C10 as stated: load_data_file always returns, and returns floor(n/height)
\* vectors, the i-th being the translated lines of the i-th group in order.
C10_AlwaysReturnsGroups ==
    /\ ld_pc # "raised"
    /\ ld_pc = "returned" => result = ExpectedItems(file, height)

\* C10 amended: load_data_file terminates; whenever it returns it returns
\* floor(n/height) vectors, the i-th being the translated lines of the i-th
\* group in order (a trailing partial group is dropped); it returns for every
\* file whose vectors have one length, and raises only when np.array refuses
\* vectors of differing lengths.
C10_ReturnsGroupsOrRaisesRagged ==
    /\ [](ld_pc = "returned" => result = ExpectedItems(file, height))
    /\ [](ld_pc = "raised" => ~Uniform(ExpectedItems(file, height)))
    /\ <>(ld_pc \in {"returned", "raised"})

C10_Witness ==
    /\ ld_pc = "returned"
    /\ height = 2
    /\ Len(file) = 3
    /\ Len(result) = 1
    /\ result[1] = <<0, 1, 2, 0>>

(***************************************************************************)
(* main: inputs                                                            *)
(***************************************************************************)
MaxK == 2         \* k values typed after -k
MaxTrain == 3     \* rows of the training file
MaxTest == 4      \* rows of the test file
SampleSize == 4   \* df_test.sample(n=4)

\* the text of one k value as typed
KTokens == { <<"1">>, <<"0", "3">>, <<"0">>, <<"-", "1">> }

Percents == {100, 50}

A == [vec |-> <<0, 0, 0>>, label |-> 5]
B == [vec |-> <<2, 2, 2>>, label |-> 8]
TrainRows == {A, B}

TestRows ==
    { [vec |-> <<1, 1, 1>>, label |-> 8],
      [vec |-> <<2, 2, 1>>, label |-> 5] }

RECURSIVE JoinComma(_)
JoinComma(toks) ==
    IF Len(toks) = 0 THEN <<>>
    ELSE IF Len(toks) = 1 THEN toks[1]
    ELSE toks[1] \o <<",">> \o JoinComma(Tail(toks))

KvalsTexts ==
    {<<>>} \cup
    UNION { {JoinComma(t) : t \in [1 .. n -> KTokens]} : n \in 1 .. MaxK }

(***************************************************************************)
(* main lines 71-80: the option text becomes the dict k_vals               *)
(***************************************************************************)
\* str.split(',')
RECURSIVE split_from(_, _, _, _)
split_from(s, i, cur, acc) ==
    IF i > Len(s) THEN Append(acc, cur)
    ELSE IF s[i] = "," THEN split_from(s, i + 1, <<>>, Append(acc, cur))
    ELSE split_from(s, i + 1, Append(cur, s[i]), acc)

split(s) == split_from(s, 1, <<>>, <<>>)

DigitVal(c) ==
    CASE c = "0" -> 0 [] c = "1" -> 1 [] c = "2" -> 2 [] c = "3" -> 3
      [] c = "4" -> 4 [] c = "5" -> 5 [] c = "6" -> 6 [] c = "7" -> 7
      [] c = "8" -> 8 [] c = "9" -> 9

RECURSIVE digits_from(_, _, _)
digits_from(t, i, acc) ==
    IF i > Len(t) THEN acc ELSE digits_from(t, i + 1, acc * 10 + DigitVal(t[i]))

\* int(text)
int(t) == IF t[1] = "-" THEN 0 - digits_from(t, 2, 0) ELSE digits_from(t, 1, 0)

\* insertion of x into a list sorted in descending order
RECURSIVE insert_desc(_, _)
insert_desc(x, srt) ==
    IF Len(srt) = 0 THEN <<x>>
    ELSE IF x > srt[1] THEN <<x>> \o srt
    ELSE <<srt[1]>> \o insert_desc(x, Tail(srt))

RECURSIVE insert_asc(_, _)
insert_asc(x, srt) ==
    IF Len(srt) = 0 THEN <<x>>
    ELSE IF x < srt[1] THEN <<x>> \o srt
    ELSE <<srt[1]>> \o insert_asc(x, Tail(srt))

RECURSIVE sort_asc(_)
sort_asc(l) == IF Len(l) = 0 THEN <<>> ELSE insert_asc(l[1], sort_asc(Tail(l)))

\* list.sort(reverse=True)
RECURSIVE sort_reverse(_)
sort_reverse(l) ==
    IF Len(l) = 0 THEN <<>> ELSE insert_desc(l[1], sort_reverse(Tail(l)))

Keys(kv) == [i \in 1 .. Len(kv) |-> kv[i].k]

HasKey(kv, key) == \E i \in 1 .. Len(kv) : kv[i].k = key

\* dict.fromkeys without the test for a key already present
RECURSIVE fromkeys_repeating(_, _)
fromkeys_repeating(l, v) ==
    IF Len(l) = 0 THEN <<>>
    ELSE <<[k |-> l[1], n |-> v]>> \o fromkeys_repeating(Tail(l), v)

RECURSIVE fromkeys_into(_, _, _)
fromkeys_into(l, v, kv) ==
    IF Len(l) = 0 THEN kv
    ELSE fromkeys_into(Tail(l), v,
            IF HasKey(kv, l[1]) THEN kv ELSE Append(kv, [k |-> l[1], n |-> v]))

\* dict.fromkeys(l, v)
fromkeys(l, v) == fromkeys_into(l, v, <<>>)

\* k_vals.get(key)
Get(kv, key) == LET i == CHOOSE i \in 1 .. Len(kv) : kv[i].k = key IN kv[i].n

\* k_vals[key] += 1
Incr(kv, key) ==
    [i \in 1 .. Len(kv) |-> IF kv[i].k = key THEN [kv[i] EXCEPT !.n = @ + 1] ELSE kv[i]]

(***************************************************************************)
(* KNN (knn.py), from spec.md 4.1-4.3 and 7                                *)
(***************************************************************************)
RECURSIVE sq_from(_, _, _)
sq_from(q, r, i) ==
    IF i > Len(q) THEN 0
    ELSE (q[i] - r[i]) * (q[i] - r[i]) + sq_from(q, r, i + 1)

\* 4.1: squared Euclidean distance
distance(q, r) == sq_from(q, r, 1)

\* insertion behind every entry that is not farther (a stable sort)
RECURSIVE insert_stable(_, _)
insert_stable(e, srt) ==
    IF Len(srt) = 0 THEN <<e>>
    ELSE IF e.distance < srt[1].distance THEN <<e>> \o srt
    ELSE <<srt[1]>> \o insert_stable(e, Tail(srt))

RECURSIVE rank_from(_, _, _, _)
rank_from(query, training, i, acc) ==
    IF i > Len(training) THEN acc
    ELSE rank_from(query, training, i + 1,
            insert_stable([distance |-> distance(query, training[i].vec),
                           label |-> training[i].label], acc))

\* 4.2: ascending distance, ties by position in the training set
rank(query, training) == rank_from(query, training, 1, <<>>)

\* 4.3: the most voted label of the first k neighbours, ties to the closest
classify(ranked, k) ==
    LET votes == [i \in 1 .. k |->
                    Cardinality({m \in 1 .. k : ranked[m].label = ranked[i].label})]
        most == CHOOSE c \in {votes[i] : i \in 1 .. k} : \A i \in 1 .. k : votes[i] <= c
        first == CHOOSE i \in 1 .. k :
                    /\ votes[i] = most
                    /\ \A m \in 1 .. (i - 1) : votes[m] # most
    IN  ranked[first].label

\* 7: the checks made before any prediction
knn_error(training, kv) ==
    IF \E i \in 1 .. Len(kv) : kv[i].k < 1 THEN "InvalidK"
    ELSE IF \E i \in 1 .. Len(kv) : kv[i].k > Len(training) THEN "InsufficientNeighbors"
    ELSE "none"

\* 7: KNN(training) refuses an empty training set
knn_init_error(training) == IF Len(training) = 0 THEN "EmptyDataset" ELSE "none"

\* KNN.knn(query, k_vals): one prediction per k, in the iteration order of k_vals
knn(training, query, kv) ==
    LET ranked == rank(query, training)
    IN  [idx \in 1 .. Len(kv) |-> classify(ranked, kv[idx].k)]

(***************************************************************************)
(* main: helpers                                                           *)
(***************************************************************************)
\* Python round(a / b): halves go to the even neighbour
RoundHalfEven(a, b) ==
    LET q == a \div b
        r == a % b
    IN  IF 2 * r < b THEN q
        ELSE IF 2 * r > b THEN q + 1
        ELSE IF q % 2 = 0 THEN q ELSE q + 1

\* DataFrame.sample(frac=percent/100): round(frac * len) rows, without
\* replacement, in a random order
SampleFrac(rows, percent) ==
    LET n == RoundHalfEven(percent * Len(rows), 100)
        picks == {f \in [1 .. n -> 1 .. Len(rows)] :
                     \A a, b \in 1 .. n : a # b => f[a] # f[b]}
    IN  {[i \in 1 .. n |-> rows[f[i]]] : f \in picks}

\* lines 132-134 with the counter of the first key charged for every hit
RECURSIVE tally_first_key(_, _, _, _)
tally_first_key(kv, preds, label, idx) ==
    IF idx > Len(kv) THEN kv
    ELSE tally_first_key(IF preds[idx] = label THEN Incr(kv, kv[1].k) ELSE kv,
                         preds, label, idx + 1)

\* lines 132-134: for idx, k_val in enumerate(k_vals): ...
RECURSIVE tally_from(_, _, _, _)
tally_from(kv, preds, label, idx) ==
    IF idx > Len(kv) THEN kv
    ELSE tally_from(IF preds[idx] = label THEN Incr(kv, kv[idx].k) ELSE kv,
                    preds, label, idx + 1)

tally_all_on_first(kv, preds, label) == tally_first_key(kv, preds, label, 1)

tally_decrementing(kv, preds, label) ==
    [i \in 1 .. Len(kv) |->
        IF preds[i] = label THEN kv[i] ELSE [kv[i] EXCEPT !.n = @ - 1]]

tally(kv, preds, label) == tally_from(kv, preds, label, 1)

RECURSIVE max_from(_, _, _)
max_from(kv, i, best) ==
    IF i > Len(kv) THEN best
    ELSE max_from(kv, i + 1,
            IF Get(kv, kv[i].k) > Get(kv, best) THEN kv[i].k ELSE best)

RECURSIVE max_last_from(_, _, _)
max_last_from(kv, i, best) ==
    IF i > Len(kv) THEN best
    ELSE max_last_from(kv, i + 1,
            IF Get(kv, kv[i].k) >= Get(kv, best) THEN kv[i].k ELSE best)

\* a max that keeps the last of the maximal keys
max_key_last(kv) == max_last_from(kv, 2, kv[1].k)

\* max(k_vals, key=k_vals.get): the first of the maximal keys
max_key(kv) == max_from(kv, 2, kv[1].k)

\* lines 138-150: the progress messages
next_print_counter(c, n, p) ==
    IF 100 * c > 95 * n /\ p = 3 THEN p + 1
    ELSE IF 100 * c > 75 * n /\ p = 2 THEN p + 1
    ELSE IF 100 * c > 50 * n /\ p = 1 THEN p + 1
    ELSE IF 100 * c > 25 * n /\ p = 0 THEN p + 1
    ELSE p

TrainSets == UNION { [1 .. n -> TrainRows] : n \in 0 .. MaxTrain }

(***************************************************************************)
(* main                                                                    *)
(***************************************************************************)
LoadIdle ==
    /\ file = <<>>
    /\ width = 0
    /\ height = 0
    /\ lines = <<>>
    /\ items = <<>>
    /\ data = <<>>
    /\ j = 0
    /\ line = <<>>
    /\ new_line = <<>>
    /\ ld_pc = "idle"
    /\ result = <<>>

Init ==
    /\ LoadIdle
    /\ args \in [kvals : KvalsTexts, dataset : {"digits", "face"},
                 percent : Percents, samples : BOOLEAN]
    /\ k_vals_in = args.kvals
    /\ k_vals = <<>>
    /\ df_train = <<>>
    /\ n_test = 0
    /\ df_train_sample = <<>>
    /\ df_test_sample = <<>>
    /\ n_test_sample = 0
    /\ my_knn = <<>>
    /\ counter = 0
    /\ print_counter = 0
    /\ predictions = <<>>
    /\ plots = <<>>
    /\ selected_k = 0
    /\ out = <<>>
    /\ ret = <<>>
    /\ err = "none"
    /\ pc = "parse"

\* lines 78-79 sorting upwards
parse_kvals_ascending(text) ==
    LET parts == split(text)
    IN  sort_asc([i \in 1 .. Len(parts) |-> int(parts[i])])

\* lines 78-79
parse_kvals(text) ==
    LET parts == split(text)
    IN  sort_reverse([i \in 1 .. Len(parts) |-> int(parts[i])])

\* lines 71-80
ParseK ==
    /\ pc = "parse"
    /\ k_vals_in' =
         IF k_vals_in = <<>>
         THEN IF args.dataset = "digits" THEN <<1>> ELSE <<5>>
         ELSE parse_kvals(k_vals_in)
    /\ k_vals' = fromkeys(k_vals_in', 0)
    /\ pc' = "load"
    /\ UNCHANGED <<args, df_train, n_test, df_train_sample, df_test_sample,
                   n_test_sample, my_knn, counter, print_counter, predictions,
                   plots, selected_k, out, ret, err>>
    /\ UNCHANGED ldvars

\* lines 88-114: the two datasets are read and sampled
LoadData ==
    /\ pc = "load"
    /\ \E tr \in TrainSets, nt \in 0 .. MaxTest :
         /\ df_train' = tr
         /\ n_test' = nt
         /\ df_train_sample' \in
              (IF args.percent = 100 THEN {tr} ELSE SampleFrac(tr, args.percent))
         /\ IF args.samples /\ nt < SampleSize
            THEN /\ pc' = "raised"
                 /\ err' = "ValueError"
                 /\ UNCHANGED n_test_sample
            ELSE /\ n_test_sample' = IF args.samples THEN SampleSize ELSE nt
                 /\ pc' = "train"
                 /\ UNCHANGED err
    /\ UNCHANGED <<args, k_vals_in, k_vals, df_test_sample, my_knn, counter,
                   print_counter, predictions, plots, selected_k, out, ret>>
    /\ UNCHANGED ldvars

\* line 118: KNN(df_train_sample)
Train ==
    /\ pc = "train"
    /\ IF knn_init_error(df_train_sample) # "none"
       THEN /\ pc' = "raised"
            /\ err' = knn_init_error(df_train_sample)
            /\ UNCHANGED my_knn
       ELSE /\ my_knn' = df_train_sample
            /\ pc' = "loop"
            /\ UNCHANGED err
    /\ UNCHANGED <<args, k_vals_in, k_vals, df_train, n_test, df_train_sample,
                   df_test_sample, n_test_sample, counter, print_counter,
                   predictions, plots, selected_k, out, ret>>
    /\ UNCHANGED ldvars

\* lines 130-151 with the hits of the valid k counted before a bad k is reported
LoopIterCountsBeforeCheck ==
    /\ pc = "loop"
    /\ counter < n_test_sample
    /\ \E row \in TestRows :
         LET e == knn_error(my_knn, k_vals)
             ranked == rank(row.vec, my_knn)
             ok(i) == k_vals[i].k >= 1 /\ k_vals[i].k <= Len(my_knn)
         IN  /\ df_test_sample' = Append(df_test_sample, row)
             /\ k_vals' = [i \in 1 .. Len(k_vals) |->
                             IF ok(i) /\ classify(ranked, k_vals[i].k) = row.label
                             THEN [k_vals[i] EXCEPT !.n = @ + 1] ELSE k_vals[i]]
             /\ IF e # "none"
                THEN /\ pc' = "raised"
                     /\ err' = e
                     /\ UNCHANGED <<predictions, plots, print_counter, counter>>
                ELSE /\ predictions' = knn(my_knn, row.vec, k_vals)
                     /\ plots' = plots
                     /\ print_counter' = print_counter
                     /\ counter' = counter + 1
                     /\ UNCHANGED <<pc, err>>
    /\ UNCHANGED <<args, k_vals_in, df_train, n_test, df_train_sample,
                   n_test_sample, my_knn, selected_k, out, ret>>
    /\ UNCHANGED ldvars

\* lines 130-151: one test row
LoopIter ==
    /\ pc = "loop"
    /\ counter < n_test_sample
    /\ \E row \in TestRows :
         LET e == knn_error(my_knn, k_vals)
         IN  /\ df_test_sample' = Append(df_test_sample, row)
             /\ IF e # "none"
                THEN /\ pc' = "raised"
                     /\ err' = e
                     /\ UNCHANGED <<predictions, k_vals, plots, print_counter, counter>>
                ELSE /\ predictions' = knn(my_knn, row.vec, k_vals)
                     /\ k_vals' = tally(k_vals, predictions', row.label)
                     /\ plots' =
                          IF args.samples
                          THEN Append(plots, [guess |-> predictions'[Len(predictions')],
                                              actual |-> row.label])
                          ELSE plots
                     /\ print_counter' =
                          IF args.samples THEN print_counter
                          ELSE next_print_counter(counter, n_test_sample, print_counter)
                     /\ counter' = counter + 1
                     /\ UNCHANGED <<pc, err>>
    /\ UNCHANGED <<args, k_vals_in, df_train, n_test, df_train_sample,
                   n_test_sample, my_knn, selected_k, out, ret>>
    /\ UNCHANGED ldvars

\* lines 152-156: the loop is over, the best k is chosen
Select ==
    /\ pc = "loop"
    /\ counter >= n_test_sample
    /\ selected_k' = max_key(k_vals)
    /\ pc' = "report"
    /\ UNCHANGED <<args, k_vals_in, k_vals, df_train, n_test, df_train_sample,
                   df_test_sample, n_test_sample, my_knn, counter, print_counter,
                   predictions, plots, out, ret, err>>
    /\ UNCHANGED ldvars

\* lines 159-162 and 169-172: the result lines printed before the count of
\* correct guesses is formatted (the same lines for the file and for stdout)
ReportHead ==
    <<[text |-> "sizes", training |-> Len(df_train_sample),
          testing |-> n_test_sample]>>
    \o (IF Len(k_vals) > 1
        THEN <<[text |-> "by_k", k_vals |-> k_vals],
               [text |-> "chosen", k |-> selected_k]>>
        ELSE <<>>)

\* lines 158-178: the results are printed and the accuracy returned
Report ==
    /\ pc = "report"
    /\ IF n_test_sample = 0
       THEN /\ out' = ReportHead
            /\ err' = "ZeroDivisionError"
            /\ pc' = "raised"
            /\ UNCHANGED ret
       ELSE /\ out' = ReportHead
                 \o <<[text |-> "correct", correct |-> Get(k_vals, selected_k),
                       total |-> n_test_sample],
                      [text |-> "timing"]>>
            /\ ret' = [num |-> Get(k_vals, selected_k) * 100, den |-> n_test_sample]
            /\ pc' = "done"
            /\ UNCHANGED err
    /\ UNCHANGED <<args, k_vals_in, k_vals, df_train, n_test, df_train_sample,
                   df_test_sample, n_test_sample, my_knn, counter, print_counter,
                   predictions, plots, selected_k>>
    /\ UNCHANGED ldvars

Next ==
    \/ ParseK
    \/ LoadData
    \/ Train
    \/ LoopIter
    \/ Select
    \/ Report

Spec == Init /\ [][Next]_vars

(***************************************************************************)
(* Properties of main                                                      *)
(***************************************************************************)
\* the k values as typed after -k, read without sorting
TypedKs == {int(t) : t \in {split(args.kvals)[i] : i \in 1 .. Len(split(args.kvals))}}

AfterLoop == pc \in {"report", "done"} \/ (pc = "raised" /\ err = "ZeroDivisionError")

InLoop == pc \in {"loop", "report", "done"}

\* C1: the selected k has a maximal counter, and is the first of the keys with
\* that counter in iteration order: the largest such k when -k was given.
C1_BestKFirstMaximal ==
    AfterLoop =>
        \E i \in 1 .. Len(k_vals) :
            /\ k_vals[i].k = selected_k
            /\ \A m \in 1 .. Len(k_vals) : k_vals[m].n <= k_vals[i].n
            /\ \A m \in 1 .. (i - 1) : k_vals[m].n < k_vals[i].n
            /\ args.kvals # <<>> =>
                 \A m \in 1 .. Len(k_vals) :
                    k_vals[m].n = k_vals[i].n => k_vals[m].k <= selected_k

C1_Witness ==
    /\ pc = "done"
    /\ k_vals = <<[k |-> 3, n |-> 1], [k |-> 1, n |-> 1]>>
    /\ selected_k = 3
    /\ n_test_sample = 2

\* the rows counted so far on which the idx-th prediction equals the label
Hits(idx) ==
    {i \in 1 .. counter :
        knn(my_knn, df_test_sample[i].vec, k_vals)[idx] = df_test_sample[i].label}

\* C2: during and after the loop the counter of the k at position idx equals
\* the number of processed rows whose idx-th prediction equals the label; one
\* loop pass adds exactly 1 to it if predictions[idx] equals the label and
\* nothing otherwise.
C2_CountersCountHits ==
    /\ [](InLoop => \A idx \in 1 .. Len(k_vals) :
                        k_vals[idx].n = Cardinality(Hits(idx)))
    /\ [][(pc = "loop" /\ counter' = counter + 1) =>
            /\ Len(k_vals') = Len(k_vals)
            /\ Len(predictions') = Len(k_vals)
            /\ \A idx \in 1 .. Len(k_vals) :
                 /\ k_vals'[idx].k = k_vals[idx].k
                 /\ k_vals'[idx].n = k_vals[idx].n +
                      (IF predictions'[idx] = df_test_sample'[counter'].label
                       THEN 1 ELSE 0)]_vars

C2_Witness ==
    /\ pc = "done"
    /\ counter = 3
    /\ Len(k_vals) = 2
    /\ k_vals[1].n = 2
    /\ k_vals[2].n = 1

\* C3: every counter is an integer within 0 .. rows processed so far, hence
\* within 0 .. N, it never decreases, and the count printed for the selected
\* k is within 0 .. N.
C3_CountersBounded ==
    /\ [](/\ counter \in 0 .. n_test_sample
          /\ \A idx \in 1 .. Len(k_vals) : k_vals[idx].n \in 0 .. counter)
    /\ [](pc = "done" =>
            /\ out[Len(out) - 1].text = "correct"
            /\ out[Len(out) - 1].correct \in 0 .. n_test_sample
            /\ out[Len(out) - 1].total = n_test_sample)
    /\ [][Len(k_vals) > 0 =>
            /\ Len(k_vals') = Len(k_vals)
            /\ \A idx \in 1 .. Len(k_vals) : k_vals'[idx].n >= k_vals[idx].n]_vars

C3_Witness ==
    /\ pc = "done"
    /\ n_test_sample = 4
    /\ \E idx \in 1 .. Len(k_vals) : k_vals[idx].n = 4
    /\ \E idx \in 1 .. Len(k_vals) : k_vals[idx].n = 0

\* C4: the guess shown with each sampled row is the prediction of the k that
\* is iterated last, and that k is the smallest k typed after -k.
C4_HeadlineIsLastK ==
    (InLoop /\ args.samples) =>
        /\ Len(plots) = counter
        /\ \A i \in 1 .. Len(plots) :
             /\ plots[i].guess =
                  classify(rank(df_test_sample[i].vec, my_knn), k_vals[Len(k_vals)].k)
             /\ plots[i].actual = df_test_sample[i].label
        /\ (args.kvals # <<>> /\ counter > 0) =>
             /\ k_vals[Len(k_vals)].k \in TypedKs
             /\ \A k \in TypedKs : k_vals[Len(k_vals)].k <= k

C4_Witness ==
    /\ pc = "done"
    /\ args.samples
    /\ Len(plots) = 4
    /\ Keys(k_vals) = <<3, 1>>
    /\ predictions[1] # predictions[2]
    /\ plots[4].guess = predictions[2]

\* C5: after -k is parsed there is one counter per distinct typed k, the keys
\* iterate in strictly descending order whatever the typed order, every
\* counter is 0 until a row is counted, and the loop never changes the keys.
C5_KeysDescendingDistinct ==
    /\ []((pc # "parse" /\ args.kvals # <<>>) =>
            /\ {k_vals[i].k : i \in 1 .. Len(k_vals)} = TypedKs
            /\ Len(k_vals) = Cardinality(TypedKs)
            /\ \A a, b \in 1 .. Len(k_vals) : a < b => k_vals[a].k > k_vals[b].k)
    /\ []((pc # "parse" /\ counter = 0) =>
            \A i \in 1 .. Len(k_vals) : k_vals[i].n = 0)
    /\ [][pc # "parse" => Keys(k_vals') = Keys(k_vals)]_vars

C5_Witness ==
    /\ pc = "done"
    /\ args.kvals = <<"1", ",", "0", "3">>
    /\ Keys(k_vals) = <<3, 1>>
    /\ k_vals[2].n > 0

\* C7: a run whose test set or training set is empty is stopped by a check
\* before the best k is selected and before any result line is printed.
C7_EmptyDatasetRejectedEarly ==
    (pc \notin {"parse", "load"} /\ (n_test = 0 \/ Len(df_train_sample) = 0)) =>
        /\ pc \notin {"report", "done"}
        /\ out = <<>>

ValidK(k) == k >= 1 /\ k <= Len(my_knn)

====
